---- MODULE Spec2Model ----
(***************************************************************************)
(* Benchmark pipeline of monorepo-benchmarks: the retry wrapper and the    *)
(* per-tool runner of scripts/benchmark-single-tool.ts, the aggregator     *)
(* combineResults of scripts/combine-results.ts, the comparator of         *)
(* scripts/compare-and-update-readme.ts, getOptimalConcurrency, and the    *)
(* jobs of the Daily Benchmark workflow.                                   *)
(***************************************************************************)
EXTENDS Integers, Sequences, FiniteSets, TLC

\* ------------------------------------------------------------------ bounds
\* largest maxTrials a caller of runCommandWithRetry passes (smallest is -1)
MaxTrialsArg == 4
\* length of the exit-status plan of one command (statuses of its 1st, 2nd, ... invocation)
PlanLen == 4
\* longest wall-clock time of one process invocation, in clock ticks
MaxDur == 2
\* number of invocations per scenario that may take longer than one tick
MaxSlow == 1
\* number of runs per benchmark in which the command may exit non-zero
MaxFail == 1
\* largest average (in ms) of a per-tool artifact
MaxAvg == 2
\* number of distinct timestamps of per-tool artifacts
MaxStamp == 2
\* largest deviation of a current average from 300 ms, in steps of 15 ms, and of
\* a current ratio from 2.0, in steps of 0.1
MaxDev == 3
\* largest average of an aggregated snapshot, in units of 50 ms
MaxTrend == 4
\* largest number of CPU cores
MaxCpu == 8
\* longest text of BENCHMARK_CONCURRENCY
MaxOverrideLen == 2
\* number of runs of the Daily Benchmark workflow
MaxRuns == 2

\* ------------------------------------------------------- program constants
\* default of the maxTrials parameter
DefaultMaxTrials == 3

VARIABLES
    rpc,          \* position in runCommandWithRetry: "idle", "call", "loop", "done"
    cmd,          \* parameter cmd
    maxTrials,    \* parameter maxTrials
    args,         \* parameter args
    fallbackArgs, \* parameter fallbackArgs
    trial,        \* loop variable trial
    result,       \* local `result`: [status, n], n the ordinal of the invocation that produced it
    invocations,  \* processes spawned by the current call or run: <<[args, status]>>
    plan,         \* the command's behaviour where it is fixed in advance: plan[n] is the
                  \* exit status of its n-th invocation
    elapsed,      \* wall-clock time since the caller read Date.now()
    slowCount,    \* invocations so far that took more than one tick
    failCount     \* runs so far in which an invocation exited non-zero

VARIABLES
    bpc,          \* position in runSingleToolBenchmark
    tool,         \* the tool being benchmarked
    i,            \* loop variable i of the prep loop, then of the benchmark loop
    totalTime,    \* local totalTime
    runs,         \* local runs
    out,          \* the ToolResults returned
    nxResets,     \* `nx reset` invocations made by cleanNxCache
    resetStatus,  \* how the `nx reset` child ended: "none" before it ran, "zero",
                  \* "nonzero", or "null" when it could not be spawned
    started,      \* phases of the runs started so far, in order
    history,      \* finished runs so far, in order: <<[phase, duration]>>
    failedRuns    \* measurement runs logged as failed (exit code not 0)

VARIABLES
    cpc,             \* position in combine-results: "idle", "loop", "returned", "thrown", "exit"
    toolIdx,         \* position of the `for (const tool of tools)` loop in the tools list
    files,           \* per tool, the kind and the results record of benchmark-results-<tool>.json as read
    stampsRead,      \* the timestamps of the artifacts parsed so far
    cres,            \* local results of combineResults
    foundResults,    \* local foundResults
    latestTimestamp, \* local latestTimestamp
    error,           \* the error thrown out of combineResults, "none" if none
    exitCode         \* exit status of the combine-results process, -1 while it runs

VARIABLES
    mpc,               \* position in main of compare-and-update-readme
    curEnv,            \* process.env.CURRENT_RESULTS
    prevEnv,           \* process.env.PREVIOUS_RESULTS
    currentResults,    \* local currentResults
    previousResults,   \* local previousResults
    shouldUpdate,      \* local shouldUpdate
    significantChanges, \* outcome of hasSignificantChanges
    hasRegression,     \* outcome of detectPerformanceRegression
    readme,            \* the benchmark sections written to README.md, in order
    stdoutReadme,      \* the readme-updated=... line written to stdout, "none" if none
    stdoutRegression,  \* the performance-regression=... line written to stdout, "none" if none
    cmpError,          \* the error thrown out of main, "none" if none
    cmpExit            \* exit status of the process, -1 while it runs

VARIABLES
    gpc,          \* position of the call of getOptimalConcurrency: "idle", "call", "returned"
    script,       \* the script whose getOptimalConcurrency runs: "single-tool" or "json"
    cpuCount,     \* os.cpus().length
    isCI,         \* process.env.CI === 'true'
    override,     \* process.env.BENCHMARK_CONCURRENCY: [set, text], text a sequence of characters
    concurrency   \* the { prep, benchmark } returned

VARIABLES
    isJsonOutput, \* module variable isJsonOutput of the running script
    stdout        \* what the process has written to stdout: "text" for log lines,
                  \* "json" for a JSON document; consecutive log lines count once

VARIABLES
    wrun,             \* number of the workflow run, 0 before the first
    skip_benchmark,   \* inputs.skip_benchmark of the run
    setup,            \* job setup: "queued", "success", "failure"
    benchmark,        \* job benchmark, per matrix tool: "queued", "running",
                      \* "success", "failure", "skipped"
    writing,          \* per matrix tool: the files its process has open for writing
    artifacts,        \* tools whose benchmark-results-<tool> artifact is uploaded
    resultsAvailable, \* needs.benchmark.outputs.results-available: "", "true", "false"
    analysis,         \* job analysis: "queued", its steps, "success", "failure", "skipped"
    reading,          \* the per-tool files combine-results is reading
    resultsFile,          \* benchmark-results.json of job analysis
    previousFile,     \* previous-benchmark-results.json in the workspace of job analysis
    PREVIOUS_RESULTS_JSON, \* what the comparator receives as PREVIOUS_RESULTS
    readmeUpdated,    \* needs.analysis.outputs.readme-updated == 'true'
    analysisResults,  \* previous-benchmark-results.json of artifact analysis-results
    publish,          \* job publish: "queued", its steps, "success", "skipped"
    committed,        \* previous-benchmark-results.json in the local commit of job publish
    repository,       \* previous-benchmark-results.json on origin/main
    previousRun       \* benchmark-results.json the run before produced

retryVars == <<rpc, cmd, maxTrials, args, fallbackArgs, trial, result, invocations>>
envVars == <<plan, elapsed, slowCount, failCount>>
benchVars == <<bpc, tool, i, totalTime, runs, out, nxResets, resetStatus, started, history,
               failedRuns>>
combVars == <<cpc, toolIdx, files, stampsRead, cres, foundResults, latestTimestamp, error, exitCode>>
cmpVars == <<mpc, curEnv, prevEnv, currentResults, previousResults, shouldUpdate,
             significantChanges, hasRegression, readme, stdoutReadme, stdoutRegression,
             cmpError, cmpExit>>
ioVars == <<isJsonOutput, stdout>>
wfVars == <<wrun, skip_benchmark, setup, benchmark, writing, artifacts, resultsAvailable,
            analysis, reading, resultsFile, previousFile, PREVIOUS_RESULTS_JSON, readmeUpdated,
            analysisResults, publish, committed, repository, previousRun>>
advVars == <<gpc, script, cpuCount, isCI, override, concurrency>>
vars == <<retryVars, envVars, benchVars, combVars, cmpVars, advVars, ioVars, wfVars>>

\* what one tool's benchmark leaves alone
notBench == <<combVars, cmpVars, advVars, wfVars>>
\* what runCommandWithRetry leaves alone
notRetry == <<benchVars, notBench, ioVars>>
\* what combine-results leaves alone
notCombine == <<retryVars, envVars, benchVars, cmpVars, advVars, wfVars>>
\* what compare-and-update-readme leaves alone
notCompare == <<retryVars, envVars, benchVars, combVars, advVars, ioVars, wfVars>>
\* what getOptimalConcurrency leaves alone
notAdvisor == <<retryVars, envVars, benchVars, combVars, cmpVars, ioVars, wfVars>>
\* the variables no step of the workflow changes
notWorkflow == <<retryVars, envVars, benchVars, combVars, cmpVars, advVars, ioVars>>

NoResult == [status |-> -1, n |-> 0]

\* console.log of a chunk of kind k ("text" or "json") after the output o
Emit(o, k) == IF k = "text" /\ o # <<>> /\ o[Len(o)] = "text" THEN o ELSE Append(o, k)

\* function log(message) { if (!isJsonOutput) console.log(message) }
log(o) == IF isJsonOutput THEN o ELSE Emit(o, "text")

Plans == [1..PlanLen -> {0, 1}]

\* planned exit status of the n-th invocation of the command
ExitOf(n) == IF n <= Len(plan) THEN plan[n] ELSE plan[Len(plan)]

\* durations an invocation may take now
Durations == IF slowCount < MaxSlow THEN 1..MaxDur ELSE {1}

\* an invocation of the current run has exited non-zero
FailedBefore == \E n \in 1..Len(invocations) : invocations[n].status # 0

\* exit statuses the next invocation may end with: the planned one where the
\* plan fixes it, otherwise zero or non-zero (non-zero in at most MaxFail runs)
ExitStatuses ==
    IF Len(invocations) < Len(plan) THEN {plan[Len(invocations) + 1]}
    ELSE IF FailedBefore \/ failCount < MaxFail THEN {0, 1} ELSE {0}

\* cp.spawnSync(cmd, a) exiting with st: blocks until the child exits; one more invocation
Spawned(a, st) == Append(invocations, [cmd |-> cmd, args |-> a, status |-> st])

SpawnResult(st) == [status |-> st, n |-> Len(invocations) + 1]

\* the child ran for d ticks and exited with st
Tick(st, d) ==
    /\ elapsed' = elapsed + d
    /\ slowCount' = IF d > 1 THEN slowCount + 1 ELSE slowCount
    /\ failCount' = IF st # 0 /\ ~FailedBefore THEN failCount + 1 ELSE failCount
    /\ UNCHANGED plan

\* ------------------------------------------------- runCommandWithRetry
\* let result = spawnSync(cmd, args); trial = 1
RetryFirstSpawn ==
    /\ rpc = "call"
    /\ \E st \in ExitStatuses, d \in Durations :
        /\ Tick(st, d)
        /\ invocations' = Spawned(args, st)
        /\ result' = SpawnResult(st)
    /\ trial' = 1
    /\ rpc' = "loop"
    /\ UNCHANGED <<cmd, maxTrials, args, fallbackArgs, notRetry>>

\* if (result.status === 0) return result
RetryReturnOk ==
    /\ rpc = "loop"
    /\ trial <= maxTrials
    /\ result.status = 0
    /\ rpc' = "done"
    /\ UNCHANGED <<cmd, maxTrials, args, fallbackArgs, trial, result, invocations, envVars, notRetry>>

\* if (trial < maxTrials) continue
RetryContinue ==
    /\ rpc = "loop"
    /\ trial <= maxTrials
    /\ result.status # 0
    /\ trial < maxTrials
    /\ trial' = trial + 1
    /\ UNCHANGED <<rpc, cmd, maxTrials, args, fallbackArgs, result, invocations, envVars, notRetry>>

\* mutant: the last trial re-runs the command without the fallback arguments
RetryFallbackDropsArgs ==
    /\ rpc = "loop"
    /\ trial <= maxTrials
    /\ result.status # 0
    /\ trial = maxTrials
    /\ \E st \in ExitStatuses, d \in Durations :
        /\ Tick(st, d)
        /\ invocations' = Spawned(args, st)
        /\ result' = SpawnResult(st)
    /\ trial' = trial + 1
    /\ UNCHANGED <<rpc, cmd, maxTrials, args, fallbackArgs, notRetry>>

\* if (trial === maxTrials) result = spawnSync(cmd, [...args, ...fallbackArgs])
RetryFallback ==
    /\ rpc = "loop"
    /\ trial <= maxTrials
    /\ result.status # 0
    /\ trial = maxTrials
    /\ \E st \in ExitStatuses, d \in Durations :
        /\ Tick(st, d)
        /\ invocations' = Spawned(args \o fallbackArgs, st)
        /\ result' = SpawnResult(st)
    /\ trial' = trial + 1
    /\ UNCHANGED <<rpc, cmd, maxTrials, args, fallbackArgs, notRetry>>

\* the for loop ends (trial > maxTrials): return result
RetryExhausted ==
    /\ rpc = "loop"
    /\ trial > maxTrials
    /\ rpc' = "done"
    /\ UNCHANGED <<cmd, maxTrials, args, fallbackArgs, trial, result, invocations, envVars, notRetry>>

\* ------------------------------------------------ benchmark-single-tool
ToolNames == {"nx", "turbo", "lerna", "lage", "moon"}

NUMBER_OF_RUNS == 10
NUMBER_OF_PREP_RUNS == 2

\* getToolCommands(tool, concurrency): the arguments of the tool's prep (c = "prep")
\* and run (c = "benchmark") command; c stands for the concurrency value
getToolCommands(t, c) ==
    CASE t = "nx" -> <<"run-many", "--target=build", "--all", "--parallel", c>>
      [] t = "turbo" -> <<"run", "build", "--concurrency=" \o c>>
      [] t = "lerna" -> <<"run", "build", "--concurrency=" \o c>>
      [] t = "lage" -> <<"build", "--concurrency", c>>
      [] t = "moon" -> <<"run", ":build", "--concurrency=" \o c>>

\* the fallback arguments runLernaBenchmark passes
LernaFallback == <<"--ignore-scripts", "--stream">>

\* mutant: every tool's runs go through runCommandWithRetry
UsesRetryAll(t) == TRUE

\* runSingleToolBenchmark: lerna goes to runLernaBenchmark, whose runs call
\* runCommandWithRetry; every other tool goes to runToolBenchmark, whose runs call spawnSync
UsesRetry(t) == t = "lerna"

\* a rational number num / den
Rat(n, d) == [num |-> n, den |-> d]

\* mutant: min is taken to be the first run
calculateStatsFirst(rs) ==
    [min |-> rs[1],
     max |-> CHOOSE x \in {rs[k] : k \in 1..Len(rs)} : \A k \in 1..Len(rs) : x >= rs[k]]

\* calculateStats(runs)
calculateStats(rs) ==
    [min |-> CHOOSE x \in {rs[k] : k \in 1..Len(rs)} : \A k \in 1..Len(rs) : x <= rs[k],
     max |-> CHOOSE x \in {rs[k] : k \in 1..Len(rs)} : \A k \in 1..Len(rs) : x >= rs[k]]

\* const average = totalTime / NUMBER_OF_RUNS
Average(total) == Rat(total, NUMBER_OF_RUNS)

\* createEmptyResults()
createEmptyResults == [average |-> Rat(0, 1), total |-> 0, runs |-> <<>>, min |-> 0, max |-> 0]

\* runs.push(duration)
Push(rs, d) == Append(rs, d)

\* the endings of the `nx reset` child: exit 0, a non-zero exit, or status null
\* when the child cannot be spawned (a failing reset counts in failCount)
ResetStatuses == IF failCount < MaxFail THEN {"zero", "nonzero", "null"} ELSE {"zero"}

\* cleanNxCache(): spawnSync('nx', ['reset']); a status other than 0 is logged
\* through logError and the caller goes on
cleanNxCache(st) ==
    /\ nxResets' = nxResets + 1
    /\ resetStatus' = st
    /\ failCount' = IF st # "zero" THEN failCount + 1 ELSE failCount

\* the lerna branch without the call of cleanNxCache
StartLernaNoReset ==
    /\ bpc = "start"
    /\ UNCHANGED notBench
    /\ stdout' = log(stdout)
    /\ UNCHANGED isJsonOutput
    /\ tool = "lerna"
    /\ i' = 0
    /\ bpc' = "prep"
    /\ UNCHANGED <<tool, totalTime, runs, out, nxResets, resetStatus, started, history,
                   failedRuns, retryVars, envVars>>

\* if (tool === 'lerna') { cleanNxCache(); results = runLernaBenchmark(...) }
StartLerna ==
    /\ bpc = "start"
    /\ UNCHANGED notBench
    /\ stdout' = log(stdout)
    /\ UNCHANGED isJsonOutput
    /\ tool = "lerna"
    /\ \E st \in ResetStatuses : cleanNxCache(st)
    /\ i' = 0
    /\ bpc' = "prep"
    /\ UNCHANGED <<tool, totalTime, runs, out, started, history, failedRuns, retryVars,
                   plan, elapsed, slowCount>>

\* else { results = runToolBenchmark(...) }
StartTool ==
    /\ bpc = "start"
    /\ UNCHANGED notBench
    /\ stdout' = log(stdout)
    /\ UNCHANGED isJsonOutput
    /\ tool # "lerna"
    /\ i' = 0
    /\ bpc' = "prep"
    /\ UNCHANGED <<tool, totalTime, runs, out, nxResets, resetStatus, started, history, failedRuns, retryVars, envVars>>

\* start = Date.now(), then the call of runCommandWithRetry (lerna) or spawnSync
BeginRun(phase, c) ==
    /\ elapsed' = 0
    /\ invocations' = <<>>
    /\ result' = NoResult
    /\ plan' = <<>>
    /\ cmd' = tool
    /\ args' = getToolCommands(tool, c)
    /\ started' = Append(started, phase)
    /\ IF UsesRetry(tool)
       THEN /\ rpc' = "call"
            /\ fallbackArgs' = LernaFallback
            /\ maxTrials' = DefaultMaxTrials
            /\ trial' = 0
       ELSE /\ rpc' = "idle"
            /\ UNCHANGED <<fallbackArgs, maxTrials, trial>>
    /\ UNCHANGED <<slowCount, failCount, tool, i, totalTime, runs, out, nxResets, resetStatus, history, failedRuns>>

\* the run's command has returned its SpawnResult
RunReturned == IF UsesRetry(tool) THEN rpc = "done" ELSE result # NoResult

\* the end of a loop iteration: its result, its start time and the child processes are gone
RunLocalsDropped ==
    /\ result' = NoResult
    /\ invocations' = <<>>
    /\ args' = <<>>
    /\ trial' = 0
    /\ elapsed' = 0
    /\ plan' = <<>>

\* for (let i = 0; i < NUMBER_OF_PREP_RUNS; i++) { prepStart = Date.now(); ...
BeginPrepRun ==
    /\ bpc = "prep"
    /\ UNCHANGED notBench
    /\ stdout' = log(stdout)
    /\ UNCHANGED isJsonOutput
    /\ i < NUMBER_OF_PREP_RUNS
    /\ bpc' = "prepRun"
    /\ BeginRun("prep", "prep")

\* for (let i = 0; i < NUMBER_OF_RUNS; ++i) { cleanFolders(); start = Date.now(); ...
BeginMeasureRun ==
    /\ bpc = "measure"
    /\ UNCHANGED notBench
    /\ stdout' = log(stdout)
    /\ UNCHANGED isJsonOutput
    /\ i < NUMBER_OF_RUNS
    /\ bpc' = "measureRun"
    /\ BeginRun("measure", "benchmark")

\* runToolBenchmark: const result = spawnSync(command.cmd, command.args)
DirectSpawn ==
    /\ bpc \in {"prepRun", "measureRun"}
    /\ UNCHANGED notBench
    /\ UNCHANGED ioVars
    /\ ~UsesRetry(tool)
    /\ result = NoResult
    /\ \E st \in ExitStatuses, d \in Durations :
        /\ Tick(st, d)
        /\ invocations' = Spawned(args, st)
        /\ result' = SpawnResult(st)
    /\ UNCHANGED <<rpc, cmd, maxTrials, args, fallbackArgs, trial, benchVars>>

\* prepDuration = Date.now() - prepStart; the duration is logged and dropped
EndPrepRun ==
    /\ bpc = "prepRun"
    /\ UNCHANGED notBench
    /\ stdout' = log(stdout)
    /\ UNCHANGED isJsonOutput
    /\ RunReturned
    /\ history' = Append(history, [phase |-> "prep", duration |-> elapsed])
    /\ i' = i + 1
    /\ bpc' = "prep"
    /\ rpc' = "idle"
    /\ RunLocalsDropped
    /\ UNCHANGED <<tool, totalTime, runs, out, nxResets, resetStatus, started, failedRuns>>
    /\ UNCHANGED <<cmd, maxTrials, fallbackArgs, slowCount, failCount>>

\* mutant: the prep loop stops one run early
PrepDoneEarly ==
    /\ bpc = "prep"
    /\ UNCHANGED notBench
    /\ stdout' = log(stdout)
    /\ UNCHANGED isJsonOutput
    /\ ~(i < NUMBER_OF_PREP_RUNS - 1)
    /\ totalTime' = 0
    /\ runs' = <<>>
    /\ i' = 0
    /\ bpc' = "measure"
    /\ UNCHANGED <<tool, out, nxResets, resetStatus, started, history, failedRuns, retryVars, envVars>>

\* the prep loop ends: let totalTime = 0; const runs = []
PrepDone ==
    /\ bpc = "prep"
    /\ UNCHANGED notBench
    /\ stdout' = log(stdout)
    /\ UNCHANGED isJsonOutput
    /\ ~(i < NUMBER_OF_PREP_RUNS)
    /\ totalTime' = 0
    /\ runs' = <<>>
    /\ i' = 0
    /\ bpc' = "measure"
    /\ UNCHANGED <<tool, out, nxResets, resetStatus, started, history, failedRuns, retryVars, envVars>>

\* mutant: only a run that exits 0 is timed
EndMeasureRunOnlyOk ==
    /\ bpc = "measureRun"
    /\ UNCHANGED notBench
    /\ stdout' = log(stdout)
    /\ UNCHANGED isJsonOutput
    /\ RunReturned
    /\ totalTime' = IF result.status = 0 THEN totalTime + elapsed ELSE totalTime
    /\ runs' = IF result.status = 0 THEN Push(runs, elapsed) ELSE runs
    /\ history' = Append(history, [phase |-> "measure", duration |-> elapsed])
    /\ failedRuns' = IF result.status = 0 THEN failedRuns ELSE failedRuns + 1
    /\ i' = i + 1
    /\ bpc' = "measure"
    /\ rpc' = "idle"
    /\ RunLocalsDropped
    /\ UNCHANGED <<tool, out, nxResets, resetStatus, started>>
    /\ UNCHANGED <<cmd, maxTrials, fallbackArgs, slowCount, failCount>>

\* duration = Date.now() - start; totalTime += duration; runs.push(duration)
EndMeasureRun ==
    /\ bpc = "measureRun"
    /\ UNCHANGED notBench
    /\ stdout' = log(stdout)
    /\ UNCHANGED isJsonOutput
    /\ RunReturned
    /\ totalTime' = totalTime + elapsed
    /\ runs' = Push(runs, elapsed)
    /\ history' = Append(history, [phase |-> "measure", duration |-> elapsed])
    /\ failedRuns' = IF result.status = 0 THEN failedRuns ELSE failedRuns + 1
    /\ i' = i + 1
    /\ bpc' = "measure"
    /\ rpc' = "idle"
    /\ RunLocalsDropped
    /\ UNCHANGED <<tool, out, nxResets, resetStatus, started>>
    /\ UNCHANGED <<cmd, maxTrials, fallbackArgs, slowCount, failCount>>

\* the benchmark loop ends: return { average, total: totalTime, runs, min, max };
\* runSingleToolBenchmark logs the total time, and main prints the JSON document
\* with console.log, after the 'JSON RESULTS' header when isJsonOutput is false
ReturnResults ==
    /\ bpc = "measure"
    /\ UNCHANGED notBench
    /\ stdout' = Emit(log(stdout), "json")
    /\ UNCHANGED isJsonOutput
    /\ ~(i < NUMBER_OF_RUNS)
    /\ out' = [average |-> Average(totalTime), total |-> totalTime, runs |-> runs,
               min |-> calculateStats(runs).min, max |-> calculateStats(runs).max]
    /\ bpc' = "done"
    /\ UNCHANGED <<tool, i, totalTime, runs, nxResets, resetStatus, started, history, failedRuns, retryVars, envVars>>

\* ------------------------------------------------------ combine-results
\* const tools = ['nx', 'turbo', 'lerna', 'lage', 'moon']
ToolOrder == <<"nx", "turbo", "lerna", "lage", "moon">>

\* latestTimestamp = '': the empty string, falsy and below every timestamp
NoStamp == 0

\* ISO-8601 timestamps, by their order under string comparison
Stamps == 1..MaxStamp

\* new Date().toISOString() when combineResults starts: later than every artifact
NowStamp == MaxStamp + 1

\* new Date().toLocaleDateString() of the instant with timestamp ts
DateOf(ts) == ts

\* the value undefined
Undefined == [undefined |-> TRUE]

\* a ToolResults record as benchmark-single-tool writes it, with average a
ToolResultOf(a) ==
    [average |-> Rat(a, 1), total |-> a * NUMBER_OF_RUNS,
     runs |-> [n \in 1..NUMBER_OF_RUNS |-> a], min |-> a, max |-> a]

\* what benchmark-results-<tool>.json can be: no file; a file JSON.parse rejects;
\* a JSON object without its results record; a complete SingleToolResult
Artifacts ==
    {[kind |-> "absent", timestamp |-> NoStamp, date |-> NoStamp, runs |-> 0,
      results |-> Undefined],
     [kind |-> "unparsable", timestamp |-> NoStamp, date |-> NoStamp, runs |-> 0,
      results |-> Undefined]}
    \cup {[kind |-> "noresults", timestamp |-> ts, date |-> DateOf(ts),
           runs |-> NUMBER_OF_RUNS, results |-> Undefined] : ts \in Stamps}
    \cup {[kind |-> "ok", timestamp |-> ts, date |-> DateOf(ts),
           runs |-> NUMBER_OF_RUNS, results |-> ToolResultOf(a)] :
            ts \in Stamps, a \in 0..MaxAvg}

\* what is remembered of an artifact once it is read
FileOf(f) == [kind |-> f.kind, results |-> f.results]

NoFile == [kind |-> "absent", results |-> Undefined]

\* the initial value of results in combineResults
EmptyCombined ==
    [timestamp |-> NowStamp, date |-> DateOf(NowStamp), runs |-> 10,
     tools |-> [t \in ToolNames |-> createEmptyResults],
     comparisons |-> <<>>]

\* toolName.charAt(0).toUpperCase() + toolName.slice(1)
Capitalize(t) ==
    CASE t = "nx" -> "Nx"
      [] t = "turbo" -> "Turbo"
      [] t = "lerna" -> "Lerna"
      [] t = "lage" -> "Lage"
      [] t = "moon" -> "Moon"

\* `${fastestToolStats.name}Vs${...}`
ComparisonKey(f, t) == f \o "Vs" \o Capitalize(t)

RatLess(x, y) == x.num * y.den < y.num * x.den
\* mutant: the quotient is taken the other way round
RatDivInverted(x, y) == Rat(y.num * x.den, y.den * x.num)
RatDiv(x, y) == Rat(x.num * y.den, x.den * y.num)
RatEq(x, y) == x.num * y.den = y.num * x.den

\* mutant: only the first artifact read sets the timestamp and the date
ReadToolKeepsFirst(c, found, latest, t, f) ==
    IF f.kind \in {"absent", "unparsable"}
    THEN [cres |-> c, found |-> found, latest |-> latest]
    ELSE LET newer == latest = NoStamp
             c1 == [c EXCEPT !.tools[t] = f.results, !.runs = f.runs]
             c2 == IF newer
                   THEN [c1 EXCEPT !.timestamp = f.timestamp, !.date = f.date]
                   ELSE c1
         IN [cres |-> c2, found |-> found + 1,
             latest |-> IF newer THEN f.timestamp ELSE latest]

\* one pass of the body of `for (const tool of tools)` over artifact f of tool t:
\* the JSON.parse or the log of toolResult.results.average may throw, which the
\* catch of the loop body swallows after the assignments made before it
ReadTool(c, found, latest, t, f) ==
    IF f.kind \in {"absent", "unparsable"}
    THEN [cres |-> c, found |-> found, latest |-> latest]
    ELSE LET newer == latest = NoStamp \/ f.timestamp > latest
             c1 == [c EXCEPT !.tools[t] = f.results, !.runs = f.runs]
             c2 == IF newer
                   THEN [c1 EXCEPT !.timestamp = f.timestamp, !.date = f.date]
                   ELSE c1
         IN [cres |-> c2, found |-> found + 1,
             latest |-> IF newer THEN f.timestamp ELSE latest]

\* mutant: tools without data are not filtered out
toolStatsUnfiltered(c) == SelectSeq(ToolOrder, LAMBDA t : TRUE)

\* toolNames.map(...).filter((tool) => tool.stats.average > 0), in key order
toolStats(c) == SelectSeq(ToolOrder, LAMBDA t : c.tools[t].average.num > 0)

RECURSIVE ReduceSlowest(_, _, _)
\* mutant: the comparison of the reduce is turned around
ReduceSlowest(ts, c, fastest) ==
    IF ts = <<>> THEN fastest
    ELSE ReduceSlowest(Tail(ts), c,
            IF RatLess(c.tools[fastest].average, c.tools[ts[1]].average)
            THEN ts[1] ELSE fastest)

RECURSIVE ReduceFastest(_, _, _)
\* toolStats.reduce((fastest, current) =>
\*     current.stats.average < fastest.stats.average ? current : fastest)
ReduceFastest(ts, c, fastest) ==
    IF ts = <<>> THEN fastest
    ELSE ReduceFastest(Tail(ts), c,
            IF RatLess(c.tools[ts[1]].average, c.tools[fastest].average)
            THEN ts[1] ELSE fastest)

\* results.comparisons after the toolNames.forEach, fastest being f
Comparisons(c, f) ==
    LET others == {t \in ToolNames : t # f /\ c.tools[t].average.num > 0}
    IN [key \in {ComparisonKey(f, t) : t \in others} |->
            LET t == CHOOSE t \in others : ComparisonKey(f, t) = key
            IN RatDiv(c.tools[t].average, c.tools[f].average)]

\* runBenchmark of benchmark-json.ts: results.comparisons over the tool results
\* of c, no tool being left out of toolStats
runBenchmarkComparisons(c) ==
    LET f == ReduceFastest(ToolOrder, c, ToolOrder[1])
    IN [key \in {ComparisonKey(f, t) : t \in ToolNames \ {f}} |->
            LET t == CHOOSE t \in ToolNames \ {f} : ComparisonKey(f, t) = key
            IN RatDiv(c.tools[t].average, c.tools[f].average)]

\* the body of `for (const tool of tools)` for the next tool of the list
CombineReadTool ==
    /\ cpc = "loop"
    /\ toolIdx <= Len(ToolOrder)
    /\ \E f \in Artifacts :
        LET r == ReadTool(cres, foundResults, latestTimestamp, ToolOrder[toolIdx], f)
        IN /\ files' = [files EXCEPT ![ToolOrder[toolIdx]] = FileOf(f)]
           /\ stampsRead' = IF f.kind \in {"absent", "unparsable"}
                            THEN stampsRead ELSE stampsRead \cup {f.timestamp}
           /\ cres' = r.cres
           /\ foundResults' = r.found
           /\ latestTimestamp' = r.latest
           /\ stdout' = IF f.kind \in {"ok", "absent"} THEN log(stdout) ELSE stdout
    /\ toolIdx' = toolIdx + 1
    /\ UNCHANGED <<cpc, error, exitCode, isJsonOutput, notCombine>>

\* mutant: the empty check is skipped
CombineNoDataSkipped ==
    /\ cpc = "loop"
    /\ toolIdx > Len(ToolOrder)
    /\ foundResults = 0
    /\ cpc' = "returned"
    /\ UNCHANGED <<toolIdx, files, stampsRead, cres, foundResults, latestTimestamp, error, exitCode, ioVars, notCombine>>

\* if (foundResults === 0) throw new Error('No benchmark results found to combine')
CombineNoData ==
    /\ cpc = "loop"
    /\ toolIdx > Len(ToolOrder)
    /\ foundResults = 0
    /\ error' = "NoData"
    /\ cpc' = "thrown"
    /\ UNCHANGED <<toolIdx, files, stampsRead, cres, foundResults, latestTimestamp, exitCode, ioVars, notCombine>>

\* the comparisons against the fastest tool, then return results; reading
\* tool.stats.average of a tool whose entry is undefined throws a TypeError
CombineRank ==
    /\ cpc = "loop"
    /\ toolIdx > Len(ToolOrder)
    /\ foundResults # 0
    /\ IF \E t \in ToolNames : cres.tools[t] = Undefined
       THEN /\ error' = "TypeError"
            /\ cpc' = "thrown"
            /\ stdout' = log(stdout)
            /\ UNCHANGED cres
       ELSE /\ cres' = IF Len(toolStats(cres)) > 1
                       THEN [cres EXCEPT !.comparisons =
                                Comparisons(cres, ReduceFastest(toolStats(cres), cres,
                                                                toolStats(cres)[1]))]
                       ELSE cres
            /\ stdout' = IF Len(toolStats(cres)) > 1
                         THEN Emit(log(stdout), "text")
                         ELSE log(stdout)
            /\ cpc' = "returned"
            /\ UNCHANGED error
    /\ UNCHANGED <<toolIdx, files, stampsRead, foundResults, latestTimestamp, exitCode,
                   isJsonOutput, notCombine>>

\* main: console.log(JSON.stringify(combinedResults)) and the process ends
CombineMainPrint ==
    /\ cpc = "returned"
    /\ stdout' = Emit(log(stdout), "json")
    /\ exitCode' = 0
    /\ cpc' = "exit"
    /\ UNCHANGED <<toolIdx, files, stampsRead, cres, foundResults, latestTimestamp, error,
                   isJsonOutput, notCombine>>

\* main: catch (error) { ...; process.exit(1) }
CombineMainCatch ==
    /\ cpc = "thrown"
    /\ exitCode' = 1
    /\ cpc' = "exit"
    /\ UNCHANGED <<toolIdx, files, stampsRead, cres, foundResults, latestTimestamp, error,
                   ioVars, notCombine>>

\* ------------------------------------------- compare-and-update-readme
\* Threshold for significant performance change (10%)
PERFORMANCE_THRESHOLD == Rat(1, 10)
\* Threshold for detecting tool performance changes worth documenting (5%)
TOOL_SIGNIFICANCE_THRESHOLD == Rat(1, 20)

\* the value null
Null == [null |-> TRUE]

\* JSON.parse('{}'): an object without tools and without comparisons
EmptyObject == [tools |-> Undefined, comparisons |-> Undefined]

\* the tool sets a results JSON may hold: all five, nx alone, all but nx
Shapes == {ToolNames, {"nx"}, ToolNames \ {"nx"}}

\* averages of the current results: none, or around 300 ms in steps of 5%
CurrentAverages == {0} \cup {300 + 15 * d : d \in -MaxDev..MaxDev}

\* averages of the previous results
PreviousAverages == {0, 300, 305}

\* the tools mapping in which tool dt has average a and every other tool 300
ToolsWith(shape, dt, a) ==
    [t \in shape |-> [average |-> Rat(IF t = dt THEN a ELSE 300, 1)]]

\* comparisons mappings of the current results: none, or one ratio around 2.0
CurrentComparisons ==
    {<<>>} \cup {[key \in {"nxVsTurbo"} |-> Rat(20 + d, 10)] : d \in -MaxDev..MaxDev}

\* comparisons mappings of the previous results
PreviousComparisons ==
    {<<>>, [key \in {"nxVsTurbo"} |-> Rat(20, 10)], [key \in {"nxVsLage"} |-> Rat(20, 10)]}

\* what the environment variable CURRENT_RESULTS can be: unset, '{}', a text
\* JSON.parse rejects, the JSON of a BenchmarkResults
CurrentInputs ==
    {[kind |-> "unset", data |-> Null], [kind |-> "empty", data |-> EmptyObject],
     [kind |-> "garbage", data |-> Null]}
    \cup {[kind |-> "json", data |-> [tools |-> ToolsWith(sh, dt, a), comparisons |-> c]] :
            sh \in Shapes, dt \in ToolNames, a \in CurrentAverages, c \in CurrentComparisons}

\* what the environment variable PREVIOUS_RESULTS can be
PreviousInputs ==
    {[kind |-> "unset", data |-> Null], [kind |-> "empty", data |-> EmptyObject],
     [kind |-> "garbage", data |-> Null]}
    \cup {[kind |-> "json", data |-> [tools |-> ToolsWith(sh, dt, a), comparisons |-> c]] :
            sh \in Shapes, dt \in ToolNames, a \in PreviousAverages, c \in PreviousComparisons}

\* averages of the tools of an aggregated snapshot: no data, or 100 ms and more
TrendAverages == {0} \cup {50 * n : n \in 2..MaxTrend}

\* the BenchmarkResults combine-results prints for the averages av: the
\* comparisons are those combineResults computes
AggregatedOf(av) ==
    LET c == [tools |-> [t \in ToolNames |-> [average |-> Rat(av[t], 1)]]]
    IN [tools |-> c.tools,
        comparisons |-> IF Len(toolStats(c)) > 1
                        THEN Comparisons(c, ReduceFastest(toolStats(c), c, toolStats(c)[1]))
                        ELSE <<>>]

\* the results JSON of a workflow run: nx, turbo and lage measured or not, lerna
\* and moon without data
AggregatedInputs ==
    {[kind |-> "json",
      data |-> AggregatedOf([t \in ToolNames |->
                                IF t \in DOMAIN av THEN av[t] ELSE 0])] :
        av \in [{"nx", "turbo", "lage"} -> TrendAverages]}

\* process.env.X || '{}'
OrEmpty(v) == IF v.kind = "unset" THEN [kind |-> "empty", data |-> EmptyObject] ELSE v

\* parseResults: JSON.parse, null when it throws
parseResults(text) == IF text.kind = "garbage" THEN Null ELSE text.data

RatSub(x, y) == Rat(x.num * y.den - y.num * x.den, x.den * y.den)
RatAbs(x) == Rat(IF x.num < 0 THEN -x.num ELSE x.num, IF x.den < 0 THEN -x.den ELSE x.den)

\* mutant: a change equal to the threshold counts
isSignificantChangeAtLeast(current, previous, threshold) ==
    IF previous.num = 0 THEN FALSE
    ELSE LET change == RatAbs(RatDiv(RatSub(current, previous), previous))
         IN ~RatLess(change, threshold)

\* isSignificantChange(current, previous, threshold)
isSignificantChange(current, previous, threshold) ==
    IF previous.num = 0 THEN FALSE
    ELSE LET change == RatAbs(RatDiv(RatSub(current, previous), previous))
         IN RatLess(threshold, change)

\* the outcome of a call: the boolean returned, or a TypeError thrown
Ok(b) == [threw |-> FALSE, value |-> b]
Threw == [threw |-> TRUE, value |-> FALSE]

RECURSIVE SomeToolSkipsMissing(_, _, _)
\* mutant: a tool without previous data is passed over
SomeToolSkipsMissing(ts, current, previous) ==
    IF ts = <<>> THEN Ok(FALSE)
    ELSE IF ts[1] \notin DOMAIN previous.tools
    THEN SomeToolSkipsMissing(Tail(ts), current, previous)
    ELSE IF ts[1] \notin DOMAIN current.tools THEN Threw
    ELSE IF isSignificantChange(current.tools[ts[1]].average,
                                previous.tools[ts[1]].average,
                                TOOL_SIGNIFICANCE_THRESHOLD)
    THEN Ok(TRUE)
    ELSE SomeToolSkipsMissing(Tail(ts), current, previous)

RECURSIVE SomeToolSignificant(_, _, _)
\* toolNames.some((tool) => ...) of hasSignificantChanges over the tools ts:
\* reading current.tools[tool].average of a tool current lacks throws
SomeToolSignificant(ts, current, previous) ==
    IF ts = <<>> THEN Ok(FALSE)
    ELSE IF ts[1] \notin DOMAIN previous.tools THEN Ok(TRUE)
    ELSE IF ts[1] \notin DOMAIN current.tools THEN Threw
    ELSE IF isSignificantChange(current.tools[ts[1]].average,
                                previous.tools[ts[1]].average,
                                TOOL_SIGNIFICANCE_THRESHOLD)
    THEN Ok(TRUE)
    ELSE SomeToolSignificant(Tail(ts), current, previous)

\* !x || !x.tools
NoTools(x) == IF x = Null THEN TRUE ELSE x.tools = Undefined

\* mutant: a first run is not significant
hasSignificantChangesNotFirst(current, previous) ==
    IF NoTools(previous) THEN Ok(FALSE)
    ELSE IF NoTools(current) THEN Ok(FALSE)
    ELSE SomeToolSignificant(ToolOrder, current, previous)

\* hasSignificantChanges(current, previous)
hasSignificantChanges(current, previous) ==
    IF NoTools(previous) THEN Ok(TRUE)
    ELSE IF NoTools(current) THEN Ok(FALSE)
    ELSE SomeToolSignificant(ToolOrder, current, previous)

\* the callback of Object.keys(current.comparisons).some(...)
RatioRegressed(current, previous, key) ==
    IF previous.comparisons = Undefined THEN FALSE
    ELSE IF key \notin DOMAIN previous.comparisons THEN FALSE
    ELSE IF previous.comparisons[key].num = 0 THEN FALSE
    ELSE /\ isSignificantChange(current.comparisons[key], previous.comparisons[key],
                                PERFORMANCE_THRESHOLD)
         /\ RatLess(current.comparisons[key], previous.comparisons[key])

\* mutant: any significant change of nx's average counts, faster or slower
detectPerformanceRegressionAnyChange(current, previous) ==
    IF NoTools(previous) \/ NoTools(current) THEN Ok(FALSE)
    ELSE IF "nx" \in DOMAIN previous.tools /\ "nx" \notin DOMAIN current.tools THEN Threw
    ELSE IF current.comparisons = Undefined THEN Threw
    ELSE LET nxRegression ==
                /\ "nx" \in DOMAIN previous.tools
                /\ isSignificantChange(current.tools["nx"].average,
                                       previous.tools["nx"].average, PERFORMANCE_THRESHOLD)
             ratioRegression ==
                \E key \in DOMAIN current.comparisons : RatioRegressed(current, previous, key)
         IN Ok(nxRegression \/ ratioRegression)

\* detectPerformanceRegression(current, previous): reading current.tools.nx.average
\* when current has no nx, or the keys of an undefined comparisons, throws
detectPerformanceRegression(current, previous) ==
    IF NoTools(previous) \/ NoTools(current) THEN Ok(FALSE)
    ELSE IF "nx" \in DOMAIN previous.tools /\ "nx" \notin DOMAIN current.tools THEN Threw
    ELSE IF current.comparisons = Undefined THEN Threw
    ELSE LET nxRegression ==
                /\ "nx" \in DOMAIN previous.tools
                /\ isSignificantChange(current.tools["nx"].average,
                                       previous.tools["nx"].average, PERFORMANCE_THRESHOLD)
                /\ RatLess(previous.tools["nx"].average, current.tools["nx"].average)
             ratioRegression ==
                \E key \in DOMAIN current.comparisons : RatioRegressed(current, previous, key)
         IN Ok(nxRegression \/ ratioRegression)

\* shouldUpdateReadme(current, previous)
shouldUpdateReadme(current, previous) == ~NoTools(current)

\* formatResults reads the average of each of the five tools
FormatThrows(results) == DOMAIN results.tools # ToolNames

\* the benchmark section formatResults writes: the average of each tool
formatResults(results) == [t \in ToolNames |-> results.tools[t].average]

\* const currentResults = parseResults(...); const previousResults = parseResults(...)
CompareParse ==
    /\ mpc = "start"
    /\ currentResults' = parseResults(OrEmpty(curEnv))
    /\ previousResults' = parseResults(OrEmpty(prevEnv))
    /\ mpc' = "parsed"
    /\ UNCHANGED <<curEnv, prevEnv, shouldUpdate, significantChanges, hasRegression, readme,
                   stdoutReadme, stdoutRegression, cmpError, cmpExit, notCompare>>

\* mutant: the process ends normally without current results
CompareNoCurrentExitsZero ==
    /\ mpc = "parsed"
    /\ currentResults = Null
    /\ cmpExit' = 0
    /\ mpc' = "exit"
    /\ UNCHANGED <<curEnv, prevEnv, currentResults, previousResults, shouldUpdate,
                   significantChanges, hasRegression, readme, stdoutReadme, stdoutRegression,
                   cmpError, notCompare>>

\* if (!currentResults) { ...; process.exit(1) }
CompareNoCurrent ==
    /\ mpc = "parsed"
    /\ currentResults = Null
    /\ cmpExit' = 1
    /\ mpc' = "exit"
    /\ UNCHANGED <<curEnv, prevEnv, currentResults, previousResults, shouldUpdate,
                   significantChanges, hasRegression, readme, stdoutReadme, stdoutRegression,
                   cmpError, notCompare>>

\* if (!hasCurrentData) { ...; return { readmeUpdated: false, performanceRegression: false } }
CompareSkipped ==
    /\ mpc = "parsed"
    /\ currentResults # Null
    /\ NoTools(currentResults)
    /\ stdoutReadme' = "false"
    /\ stdoutRegression' = "false"
    /\ cmpExit' = 0
    /\ mpc' = "exit"
    /\ UNCHANGED <<curEnv, prevEnv, currentResults, previousResults, shouldUpdate,
                   significantChanges, hasRegression, readme, cmpError, notCompare>>

\* shouldUpdateReadme, hasSignificantChanges, detectPerformanceRegression in turn;
\* a TypeError thrown by one of them is not caught and ends the process with status 1
CompareAnalyze ==
    /\ mpc = "parsed"
    /\ ~NoTools(currentResults)
    /\ shouldUpdate' = shouldUpdateReadme(currentResults, previousResults)
    /\ LET s == hasSignificantChanges(currentResults, previousResults)
           r == detectPerformanceRegression(currentResults, previousResults)
       IN /\ significantChanges' = s
          /\ hasRegression' = IF s.threw THEN hasRegression ELSE r
          /\ IF s.threw \/ r.threw
             THEN /\ cmpError' = "TypeError"
                  /\ cmpExit' = 1
                  /\ mpc' = "exit"
             ELSE /\ mpc' = "analyzed"
                  /\ UNCHANGED <<cmpError, cmpExit>>
    /\ UNCHANGED <<curEnv, prevEnv, currentResults, previousResults, readme, stdoutReadme,
                   stdoutRegression, notCompare>>

\* if (shouldUpdate) { updateReadme(currentResults); 'readme-updated=true' } else
\* 'readme-updated=false'; formatResults throws before README.md is written
CompareUpdateReadme ==
    /\ mpc = "analyzed"
    /\ IF ~shouldUpdate
       THEN /\ stdoutReadme' = "false"
            /\ mpc' = "updated"
            /\ UNCHANGED <<readme, cmpError, cmpExit>>
       ELSE IF FormatThrows(currentResults)
       THEN /\ cmpError' = "TypeError"
            /\ cmpExit' = 1
            /\ mpc' = "exit"
            /\ UNCHANGED <<readme, stdoutReadme>>
       ELSE /\ readme' = Append(readme, formatResults(currentResults))
            /\ stdoutReadme' = "true"
            /\ mpc' = "updated"
            /\ UNCHANGED <<cmpError, cmpExit>>
    /\ UNCHANGED <<curEnv, prevEnv, currentResults, previousResults, shouldUpdate,
                   significantChanges, hasRegression, stdoutRegression, notCompare>>

\* 'performance-regression=...', the log of the five averages, return
CompareReport ==
    /\ mpc = "updated"
    /\ stdoutRegression' = IF hasRegression.value THEN "true" ELSE "false"
    /\ IF FormatThrows(currentResults)
       THEN /\ cmpError' = "TypeError"
            /\ cmpExit' = 1
       ELSE /\ cmpExit' = 0
            /\ UNCHANGED cmpError
    /\ mpc' = "exit"
    /\ UNCHANGED <<curEnv, prevEnv, currentResults, previousResults, shouldUpdate,
                   significantChanges, hasRegression, readme, stdoutReadme, notCompare>>

\* ----------------------------------------------- getOptimalConcurrency
\* the characters a text of BENCHMARK_CONCURRENCY is made of
Chars == {"0", "1", "2", "-", "x", "."}

Digits == {"0", "1", "2"}

DigitValue(ch) == CASE ch = "0" -> 0 [] ch = "1" -> 1 [] ch = "2" -> 2

\* the texts of at most n characters
Texts(n) == UNION {[1..k -> Chars] : k \in 0..n}

\* what process.env.BENCHMARK_CONCURRENCY can be: unset, or a text
Overrides ==
    {[set |-> FALSE, text |-> <<>>]} \cup {[set |-> TRUE, text |-> t] : t \in Texts(MaxOverrideLen)}

RECURSIVE DigitPrefix(_, _, _)
\* the value of the longest prefix of digits of text t, acc and seen being the
\* value and the presence of the digits already read
DigitPrefix(t, acc, seen) ==
    IF t # <<>> /\ t[1] \in Digits
    THEN DigitPrefix(Tail(t), 10 * acc + DigitValue(t[1]), TRUE)
    ELSE [nan |-> ~seen, value |-> acc]

\* parseInt(text, 10): an optional sign, then the longest prefix of digits; NaN
\* when there is no digit
parseInt(t) ==
    IF t # <<>> /\ t[1] = "-"
    THEN LET r == DigitPrefix(Tail(t), 0, FALSE) IN [nan |-> r.nan, value |-> -r.value]
    ELSE DigitPrefix(t, 0, FALSE)

\* mutant: the second argument is returned
MathMaxSecond(a, b) == b

\* Math.max(a, b)
MathMax(a, b) == IF a >= b THEN a ELSE b

\* mutant: CI measures with half of the cores as well
CIHeuristicHalf(n) ==
    [prep |-> MathMax(1, (n \div 2) - 1), benchmark |-> MathMax(1, (n \div 2) - 1)]

\* the isCI branch, the same in both scripts
CIHeuristic(n) ==
    [prep |-> MathMax(1, (n \div 2) - 1), benchmark |-> MathMax(1, n - 1)]

\* the else branch: benchmark-single-tool.ts and benchmark-json.ts differ
LocalHeuristic(sc, n) ==
    IF sc = "single-tool"
    THEN [prep |-> MathMax(1, n \div 2), benchmark |-> MathMax(1, n - 1)]
    ELSE [prep |-> MathMax(1, (n \div 2) - 1), benchmark |-> MathMax(1, (n \div 2) - 1)]

\* mutant: BENCHMARK_CONCURRENCY is not looked at
getOptimalConcurrencyNoOverride(sc, n, ci, ov) ==
    IF ci THEN CIHeuristic(n) ELSE LocalHeuristic(sc, n)

\* getOptimalConcurrency() of script sc with n cores, CI flag ci and override ov
getOptimalConcurrency(sc, n, ci, ov) ==
    LET overrideValue == parseInt(ov.text)
    IN IF ov.set /\ ov.text # <<>> /\ ~overrideValue.nan /\ overrideValue.value > 0
       THEN [prep |-> overrideValue.value, benchmark |-> overrideValue.value]
       ELSE IF ci THEN CIHeuristic(n)
       ELSE LocalHeuristic(sc, n)

\* const concurrency = getOptimalConcurrency()
AdvisorCall ==
    /\ gpc = "call"
    /\ concurrency' = getOptimalConcurrency(script, cpuCount, isCI, override)
    /\ gpc' = "returned"
    /\ UNCHANGED <<script, cpuCount, isCI, override, notAdvisor>>

\* ------------------------------------------------- Daily Benchmark workflow
\* no file, or the placeholder {} written in its place
Absent == [absent |-> TRUE]

\* the AggregatedResult combine-results prints in run r
Aggregated(r) == [run |-> r]

\* benchmark-results-${{ matrix.tool }}.json
ResultFile(t) == <<"benchmark-results", t, "json">>

\* the files combineResults looks for: benchmark-results-${tool}.json of every tool
ResultFiles == {<<"benchmark-results", t, "json">> : t \in ToolNames}

\* conclusions of a job
Finished == {"success", "failure", "skipped"}

\* mutant: the dependent job starts once one matrix job has finished
BenchmarkFinishedSome == \E t \in ToolNames : benchmark[t] \in Finished

\* needs: benchmark, a dependent job starts when every matrix job has finished
BenchmarkFinished == \A t \in ToolNames : benchmark[t] \in Finished

\* on: schedule / workflow_dispatch, a run starts when the run before has ended;
\* every job of the new run starts on a fresh runner
Trigger ==
    /\ wrun < MaxRuns
    /\ publish \in Finished
    /\ wrun' = wrun + 1
    /\ skip_benchmark' \in BOOLEAN
    /\ previousRun' = resultsFile
    /\ setup' = "queued"
    /\ benchmark' = [t \in ToolNames |-> "queued"]
    /\ writing' = [t \in ToolNames |-> {}]
    /\ artifacts' = {}
    /\ resultsAvailable' = ""
    /\ analysis' = "queued"
    /\ reading' = {}
    /\ resultsFile' = Absent
    /\ previousFile' = Absent
    /\ PREVIOUS_RESULTS_JSON' = Absent
    /\ readmeUpdated' = FALSE
    /\ analysisResults' = Absent
    /\ publish' = "queued"
    /\ committed' = Absent
    /\ UNCHANGED <<repository, notWorkflow>>

\* job setup; job benchmark has needs: setup and if: !inputs.skip_benchmark
SetupJob ==
    /\ wrun > 0
    /\ setup = "queued"
    /\ \E c \in {"success", "failure"} :
        /\ setup' = c
        /\ benchmark' = IF c = "failure" \/ skip_benchmark
                        THEN [t \in ToolNames |-> "skipped"]
                        ELSE benchmark
    /\ UNCHANGED <<wrun, skip_benchmark, writing, artifacts, resultsAvailable, analysis,
                   reading, resultsFile, previousFile, PREVIOUS_RESULTS_JSON, readmeUpdated,
                   analysisResults, publish, committed, repository, previousRun,
                   notWorkflow>>

\* step 'Run benchmark for <tool>' starts: the shell opens the redirection target
\* and runs benchmark-single-tool.js <tool> --output json
BenchmarkRun(t) ==
    /\ setup = "success"
    /\ benchmark[t] = "queued"
    /\ benchmark' = [benchmark EXCEPT ![t] = "running"]
    /\ writing' = [writing EXCEPT ![t] = {ResultFile(t)}]
    /\ UNCHANGED <<wrun, skip_benchmark, setup, artifacts, resultsAvailable, analysis,
                   reading, resultsFile, previousFile, PREVIOUS_RESULTS_JSON, readmeUpdated,
                   analysisResults, publish, committed, repository, previousRun,
                   notWorkflow>>

\* the process exits and the file is closed; after exit 0 the file is uploaded as
\* artifact benchmark-results-<tool>; results-available takes the conclusion of
\* the step of the matrix job that finished last
BenchmarkEnd(t) ==
    /\ benchmark[t] = "running"
    /\ \E c \in {"success", "failure"} :
        /\ benchmark' = [benchmark EXCEPT ![t] = c]
        /\ artifacts' = IF c = "success" THEN artifacts \cup {t} ELSE artifacts
        /\ resultsAvailable' = IF c = "success" THEN "true" ELSE "false"
    /\ writing' = [writing EXCEPT ![t] = {}]
    /\ UNCHANGED <<wrun, skip_benchmark, setup, analysis, reading, resultsFile, previousFile,
                   PREVIOUS_RESULTS_JSON, readmeUpdated, analysisResults, publish,
                   committed, repository, previousRun, notWorkflow>>

\* job analysis: needs: [setup, benchmark], if: always() && (inputs.skip_benchmark
\* || needs.benchmark.outputs.results-available != 'false'); checkout brings the
\* repository's previous-benchmark-results.json; without the built scripts of
\* job setup the download step fails
AnalysisStart ==
    /\ analysis = "queued"
    /\ setup \in Finished
    /\ BenchmarkFinished
    /\ IF ~(skip_benchmark \/ resultsAvailable # "false")
       THEN analysis' = "skipped" /\ UNCHANGED previousFile
       ELSE IF setup = "failure"
       THEN analysis' = "failure" /\ UNCHANGED previousFile
       ELSE analysis' = "combine" /\ previousFile' = repository
    /\ UNCHANGED <<wrun, skip_benchmark, setup, benchmark, writing, artifacts,
                   resultsAvailable, reading, resultsFile, PREVIOUS_RESULTS_JSON, readmeUpdated,
                   analysisResults, publish, committed, repository, previousRun,
                   notWorkflow>>

\* steps 'Download benchmark results' and 'Combine benchmark results' start, or
\* 'Set empty results when benchmark skipped'
AnalysisCombineBegin ==
    /\ analysis = "combine"
    /\ IF skip_benchmark
       THEN analysis' = "previous" /\ UNCHANGED reading
       ELSE analysis' = "combining" /\ reading' = ResultFiles
    /\ UNCHANGED <<wrun, skip_benchmark, setup, benchmark, writing, artifacts,
                   resultsAvailable, resultsFile, previousFile, PREVIOUS_RESULTS_JSON,
                   readmeUpdated, analysisResults, publish, committed, repository,
                   previousRun, notWorkflow>>

\* combine-results exits: status 1 without any per-tool file, which fails the
\* job; otherwise benchmark-results.json holds its output ('Read current results')
AnalysisCombineEnd ==
    /\ analysis = "combining"
    /\ reading' = {}
    /\ IF artifacts = {}
       THEN analysis' = "failure" /\ UNCHANGED resultsFile
       ELSE analysis' = "previous" /\ resultsFile' = Aggregated(wrun)
    /\ UNCHANGED <<wrun, skip_benchmark, setup, benchmark, writing, artifacts,
                   resultsAvailable, previousFile, PREVIOUS_RESULTS_JSON, readmeUpdated,
                   analysisResults, publish, committed, repository, previousRun,
                   notWorkflow>>

\* step 'Read previous results': the file of the checkout, or {}
AnalysisReadPrevious ==
    /\ analysis = "previous"
    /\ PREVIOUS_RESULTS_JSON' = previousFile
    /\ analysis' = "compare"
    /\ UNCHANGED <<wrun, skip_benchmark, setup, benchmark, writing, artifacts,
                   resultsAvailable, reading, resultsFile, previousFile, readmeUpdated,
                   analysisResults, publish, committed, repository, previousRun,
                   notWorkflow>>

\* step 'Compare results and update README': readme-updated as the comparator
\* prints it; without current results it never prints readme-updated=true
AnalysisCompare ==
    /\ analysis = "compare"
    /\ readmeUpdated' \in (IF resultsFile = Absent THEN {FALSE} ELSE BOOLEAN)
    /\ analysis' = "save"
    /\ UNCHANGED <<wrun, skip_benchmark, setup, benchmark, writing, artifacts,
                   resultsAvailable, reading, resultsFile, previousFile, PREVIOUS_RESULTS_JSON,
                   analysisResults, publish, committed, repository, previousRun,
                   notWorkflow>>

\* step 'Save current results': cp benchmark-results.json previous-benchmark-results.json
AnalysisSave ==
    /\ analysis = "save"
    /\ previousFile' = IF skip_benchmark THEN previousFile ELSE resultsFile
    /\ analysis' = "upload"
    /\ UNCHANGED <<wrun, skip_benchmark, setup, benchmark, writing, artifacts,
                   resultsAvailable, reading, resultsFile, PREVIOUS_RESULTS_JSON, readmeUpdated,
                   analysisResults, publish, committed, repository, previousRun,
                   notWorkflow>>

\* step 'Upload analysis artifacts': previous-benchmark-results.json and README.md
AnalysisUpload ==
    /\ analysis = "upload"
    /\ analysisResults' = previousFile
    /\ analysis' = "success"
    /\ UNCHANGED <<wrun, skip_benchmark, setup, benchmark, writing, artifacts,
                   resultsAvailable, reading, resultsFile, previousFile, PREVIOUS_RESULTS_JSON,
                   readmeUpdated, publish, committed, repository, previousRun,
                   notWorkflow>>

\* job publish: needs: [benchmark, analysis], if: always() &&
\* needs.analysis.outputs.readme-updated == 'true'
PublishStart ==
    /\ publish = "queued"
    /\ analysis \in Finished
    /\ BenchmarkFinished
    /\ publish' = IF readmeUpdated THEN "combine" ELSE "skipped"
    /\ UNCHANGED <<wrun, skip_benchmark, setup, benchmark, writing, artifacts,
                   resultsAvailable, analysis, reading, resultsFile, previousFile,
                   PREVIOUS_RESULTS_JSON, readmeUpdated, analysisResults, committed,
                   repository, previousRun, notWorkflow>>

\* steps 'Download benchmark results' and 'Combine benchmark results for commit'
PublishCombine ==
    /\ publish = "combine"
    /\ reading' = IF skip_benchmark THEN {} ELSE ResultFiles
    /\ publish' = "commit"
    /\ UNCHANGED <<wrun, skip_benchmark, setup, benchmark, writing, artifacts,
                   resultsAvailable, analysis, resultsFile, previousFile, PREVIOUS_RESULTS_JSON,
                   readmeUpdated, analysisResults, committed, repository, previousRun,
                   notWorkflow>>

\* step 'Commit and push changes': git add README.md previous-benchmark-results.json;
\* git commit; git pull --rebase origin main. The commit stays in the runner's
\* clone: the step has no git push
PublishCommit ==
    /\ publish = "commit"
    /\ reading' = {}
    /\ committed' = analysisResults
    /\ publish' = "success"
    /\ UNCHANGED <<wrun, skip_benchmark, setup, benchmark, writing, artifacts,
                   resultsAvailable, analysis, resultsFile, previousFile, PREVIOUS_RESULTS_JSON,
                   readmeUpdated, analysisResults, repository, previousRun, notWorkflow>>

\* ------------------------------------------------------- specifications
RetryIdle ==
    /\ rpc = "idle"
    /\ maxTrials = DefaultMaxTrials
    /\ args = <<>>
    /\ fallbackArgs = <<>>
    /\ trial = 0
    /\ result = NoResult
    /\ invocations = <<>>

BenchIdle ==
    /\ bpc = "idle"
    /\ tool = "nx"
    /\ i = 0
    /\ totalTime = 0
    /\ runs = <<>>
    /\ out = createEmptyResults
    /\ nxResets = 0
    /\ resetStatus = "none"
    /\ started = <<>>
    /\ history = <<>>
    /\ failedRuns = 0

CombineIdle ==
    /\ cpc = "idle"
    /\ toolIdx = 1
    /\ files = [t \in ToolNames |-> NoFile]
    /\ stampsRead = {}
    /\ cres = EmptyCombined
    /\ foundResults = 0
    /\ latestTimestamp = NoStamp
    /\ error = "none"
    /\ exitCode = -1

CompareIdle ==
    /\ mpc = "idle"
    /\ curEnv = [kind |-> "unset", data |-> Null]
    /\ prevEnv = [kind |-> "unset", data |-> Null]
    /\ currentResults = Null
    /\ previousResults = Null
    /\ shouldUpdate = FALSE
    /\ significantChanges = Ok(FALSE)
    /\ hasRegression = Ok(FALSE)
    /\ readme = <<>>
    /\ stdoutReadme = "none"
    /\ stdoutRegression = "none"
    /\ cmpError = "none"
    /\ cmpExit = -1

\* a process that has written nothing
OutputIdle ==
    /\ isJsonOutput = FALSE
    /\ stdout = <<>>

WorkflowIdle ==
    /\ wrun = 0
    /\ skip_benchmark = FALSE
    /\ setup = "queued"
    /\ benchmark = [t \in ToolNames |-> "queued"]
    /\ writing = [t \in ToolNames |-> {}]
    /\ artifacts = {}
    /\ resultsAvailable = ""
    /\ analysis = "queued"
    /\ reading = {}
    /\ resultsFile = Absent
    /\ previousFile = Absent
    /\ PREVIOUS_RESULTS_JSON = Absent
    /\ readmeUpdated = FALSE
    /\ analysisResults = Absent
    /\ publish = "skipped"
    /\ committed = Absent
    /\ repository = Absent
    /\ previousRun = Absent

AdvisorIdle ==
    /\ gpc = "idle"
    /\ script = "single-tool"
    /\ cpuCount = 1
    /\ isCI = FALSE
    /\ override = [set |-> FALSE, text |-> <<>>]
    /\ concurrency = [prep |-> 1, benchmark |-> 1]

\* runCommandWithRetry on its own: one call with any maxTrials, any fallback
\* arguments and any behaviour of the command
InitRetry ==
    /\ rpc = "call"
    /\ cmd = "lerna"
    /\ maxTrials \in -1..MaxTrialsArg
    /\ args = <<"run", "build">>
    /\ fallbackArgs \in {<<>>, <<"x">>}
    /\ trial = 0
    /\ result = NoResult
    /\ invocations = <<>>
    /\ plan \in Plans
    /\ elapsed = 0
    /\ slowCount = 0
    /\ failCount = 0
    /\ BenchIdle
    /\ CombineIdle
    /\ CompareIdle
    /\ AdvisorIdle
    /\ WorkflowIdle
    /\ OutputIdle

NextRetry ==
    \/ RetryFirstSpawn
    \/ RetryReturnOk
    \/ RetryContinue
    \/ RetryFallback
    \/ RetryExhausted

SpecRetry == InitRetry /\ [][NextRetry]_vars

\* node benchmark-single-tool.js <tool>: one benchmark of one tool
Init ==
    /\ RetryIdle
    /\ tool \in ToolNames
    /\ cmd = tool
    /\ bpc = "start"
    /\ i = 0
    /\ totalTime = 0
    /\ runs = <<>>
    /\ out = createEmptyResults
    /\ nxResets = 0
    /\ resetStatus = "none"
    /\ started = <<>>
    /\ history = <<>>
    /\ failedRuns = 0
    /\ plan = <<>>
    /\ elapsed = 0
    /\ slowCount = 0
    /\ failCount = 0
    /\ CombineIdle
    /\ CompareIdle
    /\ AdvisorIdle
    /\ WorkflowIdle
    /\ isJsonOutput = TRUE
    /\ stdout = <<>>

Next ==
    \/ StartLerna
    \/ StartTool
    \/ BeginPrepRun
    \/ EndPrepRun
    \/ PrepDone
    \/ BeginMeasureRun
    \/ DirectSpawn
    \/ RetryFirstSpawn
    \/ RetryReturnOk
    \/ RetryContinue
    \/ RetryFallback
    \/ RetryExhausted
    \/ EndMeasureRun
    \/ ReturnResults

Spec == Init /\ [][Next]_vars

\* node combine-results.js: one aggregation over the files found in the directory
InitCombine ==
    /\ RetryIdle
    /\ cmd = "nx"
    /\ plan = <<>>
    /\ elapsed = 0
    /\ slowCount = 0
    /\ failCount = 0
    /\ BenchIdle
    /\ cpc = "loop"
    /\ toolIdx = 1
    /\ files = [t \in ToolNames |-> NoFile]
    /\ stampsRead = {}
    /\ cres = EmptyCombined
    /\ foundResults = 0
    /\ latestTimestamp = NoStamp
    /\ error = "none"
    /\ exitCode = -1
    /\ CompareIdle
    /\ AdvisorIdle
    /\ WorkflowIdle
    /\ isJsonOutput \in BOOLEAN
    /\ stdout = log(<<>>)

NextCombine ==
    \/ CombineReadTool
    \/ CombineNoData
    \/ CombineRank
    \/ CombineMainPrint
    \/ CombineMainCatch

SpecCombine == InitCombine /\ [][NextCombine]_vars

\* node compare-and-update-readme.js: one comparison of the two inputs
InitCompare ==
    /\ RetryIdle
    /\ cmd = "nx"
    /\ plan = <<>>
    /\ elapsed = 0
    /\ slowCount = 0
    /\ failCount = 0
    /\ BenchIdle
    /\ CombineIdle
    /\ mpc = "start"
    /\ curEnv \in CurrentInputs
    /\ prevEnv \in PreviousInputs
    /\ currentResults = Null
    /\ previousResults = Null
    /\ shouldUpdate = FALSE
    /\ significantChanges = Ok(FALSE)
    /\ hasRegression = Ok(FALSE)
    /\ readme = <<>>
    /\ stdoutReadme = "none"
    /\ stdoutRegression = "none"
    /\ cmpError = "none"
    /\ cmpExit = -1
    /\ AdvisorIdle
    /\ WorkflowIdle
    /\ OutputIdle

\* compare-and-update-readme on the outputs of combine-results of two workflow runs
InitTrend ==
    /\ RetryIdle
    /\ cmd = "nx"
    /\ plan = <<>>
    /\ elapsed = 0
    /\ slowCount = 0
    /\ failCount = 0
    /\ BenchIdle
    /\ CombineIdle
    /\ AdvisorIdle
    /\ WorkflowIdle
    /\ OutputIdle
    /\ mpc = "start"
    /\ curEnv \in AggregatedInputs
                \cup {[kind |-> "unset", data |-> Null], [kind |-> "garbage", data |-> Null]}
    /\ prevEnv \in AggregatedInputs \cup {[kind |-> "empty", data |-> EmptyObject]}
    /\ currentResults = Null
    /\ previousResults = Null
    /\ shouldUpdate = FALSE
    /\ significantChanges = Ok(FALSE)
    /\ hasRegression = Ok(FALSE)
    /\ readme = <<>>
    /\ stdoutReadme = "none"
    /\ stdoutRegression = "none"
    /\ cmpError = "none"
    /\ cmpExit = -1

NextCompare ==
    \/ CompareParse
    \/ CompareNoCurrent
    \/ CompareSkipped
    \/ CompareAnalyze
    \/ CompareUpdateReadme
    \/ CompareReport

SpecCompare == InitCompare /\ [][NextCompare]_vars

SpecTrend == InitTrend /\ [][NextCompare]_vars

\* one call of getOptimalConcurrency in either script, on any machine
InitAdvisor ==
    /\ RetryIdle
    /\ cmd = "nx"
    /\ plan = <<>>
    /\ elapsed = 0
    /\ slowCount = 0
    /\ failCount = 0
    /\ BenchIdle
    /\ CombineIdle
    /\ CompareIdle
    /\ gpc = "call"
    /\ script \in {"single-tool", "json"}
    /\ cpuCount \in 0..MaxCpu
    /\ isCI \in BOOLEAN
    /\ override \in Overrides
    /\ concurrency = [prep |-> 1, benchmark |-> 1]
    /\ OutputIdle
    /\ WorkflowIdle

NextAdvisor == AdvisorCall

SpecAdvisor == InitAdvisor /\ [][NextAdvisor]_vars


\* the Daily Benchmark workflow, run after run
InitWorkflow ==
    /\ RetryIdle
    /\ cmd = "nx"
    /\ plan = <<>>
    /\ elapsed = 0
    /\ slowCount = 0
    /\ failCount = 0
    /\ BenchIdle
    /\ CombineIdle
    /\ CompareIdle
    /\ AdvisorIdle
    /\ OutputIdle
    /\ WorkflowIdle

NextWorkflow ==
    \/ Trigger
    \/ SetupJob
    \/ \E t \in ToolNames : BenchmarkRun(t)
    \/ \E t \in ToolNames : BenchmarkEnd(t)
    \/ AnalysisStart
    \/ AnalysisCombineBegin
    \/ AnalysisCombineEnd
    \/ AnalysisReadPrevious
    \/ AnalysisCompare
    \/ AnalysisSave
    \/ AnalysisUpload
    \/ PublishStart
    \/ PublishCombine
    \/ PublishCommit

SpecWorkflow == InitWorkflow /\ [][NextWorkflow]_vars

\* ================================================================ claims
RECURSIVE SumSeq(_)
SumSeq(q) == IF q = <<>> THEN 0 ELSE q[1] + SumSeq(Tail(q))

RECURSIVE DurationsOf(_, _)
\* the durations of the runs of one phase, in run order
DurationsOf(h, phase) ==
    IF h = <<>> THEN <<>>
    ELSE IF h[1].phase = phase THEN <<h[1].duration>> \o DurationsOf(Tail(h), phase)
    ELSE DurationsOf(Tail(h), phase)

Count(q, x) == Cardinality({k \in 1..Len(q) : q[k] = x})

AlwaysFails == \A n \in 1..Len(plan) : plan[n] # 0

\* the command exits non-zero on its first k invocations and 0 on invocation k + 1
FailsFirst(k) == (\A n \in 1..k : ExitOf(n) # 0) /\ ExitOf(k + 1) = 0

\* C1: a command that always exits non-zero, maxTrials = 3, fallback ["x"]: exactly
\* three invocations, the first two with the original arguments, the third with
\* arguments + fallback, and the third's result is returned.
C1_ThreeInvocations ==
    (rpc = "done" /\ maxTrials = 3 /\ fallbackArgs = <<"x">> /\ AlwaysFails)
        => /\ Len(invocations) = 3
           /\ invocations[1].args = args
           /\ invocations[2].args = args
           /\ invocations[3].args = args \o fallbackArgs
           /\ result = [status |-> invocations[3].status, n |-> 3]

\* C2: maxTrials >= 2, the command fails k < maxTrials times and then succeeds:
\* exactly k + 1 invocations, all with the original arguments, and the successful
\* result is returned.
C2_RetryOriginalArgs ==
    \A k \in 0..MaxTrialsArg :
        (rpc = "done" /\ maxTrials >= 2 /\ k < maxTrials /\ FailsFirst(k))
            => /\ Len(invocations) = k + 1
               /\ \A n \in 1..Len(invocations) : invocations[n].args = args
               /\ result = [status |-> 0, n |-> k + 1]

\* C3 as stated: for every maxTrials <= 1 (0 and negative included) a failing first
\* invocation is followed by exactly one invocation with arguments + fallback,
\* whose result is returned.
C3_FallbackForMaxTrialsBelow2 ==
    (rpc = "done" /\ maxTrials <= 1 /\ ExitOf(1) # 0)
        => /\ Len(invocations) = 2
           /\ invocations[1].args = args
           /\ invocations[2].args = args \o fallbackArgs
           /\ result = [status |-> invocations[2].status, n |-> 2]

\* C3 amended: with maxTrials = 1 a failing first invocation is followed by exactly
\* one invocation with arguments + fallback, whose result is returned; with
\* maxTrials <= 0 nothing follows and the failed first result is returned.
C3_FallbackOnlyForMaxTrials1 ==
    (rpc = "done" /\ maxTrials <= 1 /\ ExitOf(1) # 0)
        => /\ invocations[1].args = args
           /\ maxTrials = 1 =>
                /\ Len(invocations) = 2
                /\ invocations[2].args = args \o fallbackArgs
                /\ result = [status |-> invocations[2].status, n |-> 2]
           /\ maxTrials <= 0 =>
                /\ Len(invocations) = 1
                /\ result = [status |-> invocations[1].status, n |-> 1]

C3_Witness ==
    /\ rpc = "done"
    /\ maxTrials = 1
    /\ fallbackArgs = <<"x">>
    /\ ExitOf(1) # 0
    /\ Len(invocations) = 2

\* C4: one benchmark starts exactly NUMBER_OF_PREP_RUNS prep runs and then exactly
\* NUMBER_OF_RUNS measurement runs, one at a time: no prep run starts after a
\* measurement run, and no measurement run starts before every prep run has ended.
C4_PrepThenMeasure ==
    /\ Len(started) - Len(history) \in {0, 1}
    /\ Len(started) - Len(history) = 1 <=> bpc \in {"prepRun", "measureRun"}
    /\ \A n \in 1..Len(history) : history[n].phase = started[n]
    /\ \A m, n \in 1..Len(started) :
        (m < n /\ started[m] = "measure") => started[n] = "measure"
    /\ Count(started, "prep") <= NUMBER_OF_PREP_RUNS
    /\ Count(started, "measure") <= NUMBER_OF_RUNS
    /\ Count(started, "measure") > 0 =>
        Len(DurationsOf(history, "prep")) = NUMBER_OF_PREP_RUNS
    /\ bpc = "done" =>
        /\ Count(started, "prep") = NUMBER_OF_PREP_RUNS
        /\ Count(started, "measure") = NUMBER_OF_RUNS
        /\ Len(history) = Len(started)

C4_Witness ==
    /\ bpc = "done"
    /\ tool = "lerna"
    /\ failCount > 0
    /\ Len(started) = NUMBER_OF_PREP_RUNS + NUMBER_OF_RUNS

\* C5: every measurement run, failed or not, adds exactly its duration to runs, in
\* run order; prep durations never enter runs; a finished benchmark has
\* NUMBER_OF_RUNS runs.
C5_RunsAreMeasureDurations ==
    /\ bpc \in {"measure", "measureRun", "done"} => runs = DurationsOf(history, "measure")
    /\ bpc \in {"start", "prep", "prepRun"} => runs = <<>>
    /\ bpc = "done" => Len(runs) = NUMBER_OF_RUNS /\ out.runs = runs

C5_Witness ==
    /\ bpc = "done"
    /\ Len(out.runs) = NUMBER_OF_RUNS
    /\ failedRuns > 0

\* C6: the ToolResults returned satisfies total = sum(runs), average = total /
\* len(runs), min = minimum(runs), max = maximum(runs).
C6_ResultStats ==
    bpc = "done" =>
        /\ out.runs # <<>>
        /\ out.total = SumSeq(out.runs)
        /\ out.average.den # 0
        /\ out.average.num * Len(out.runs) = out.total * out.average.den
        /\ \E k \in 1..Len(out.runs) : out.min = out.runs[k]
        /\ \A k \in 1..Len(out.runs) : out.min <= out.runs[k]
        /\ \E k \in 1..Len(out.runs) : out.max = out.runs[k]
        /\ \A k \in 1..Len(out.runs) : out.max >= out.runs[k]

C6_Witness ==
    /\ bpc = "done"
    /\ out.min < out.max
    /\ out.runs[1] # out.min

AfterLoop == toolIdx > Len(ToolOrder)

\* combineResults has returned its AggregatedResult
Returned == cpc \in {"returned", "exit"} /\ error = "none"

\* C8: when none of the five per-tool files holds a result (each is missing or
\* unreadable), combineResults throws the no-data error instead of returning an
\* AggregatedResult, and the process ends with exit status 1.
C8_NoDataFails ==
    (AfterLoop /\ \A t \in ToolNames : files[t].kind \in {"absent", "unparsable"})
        => /\ cpc # "returned"
           /\ exitCode # 0
           /\ cpc \in {"thrown", "exit"} => error = "NoData"
           /\ cpc = "exit" => exitCode = 1
           /\ cres.comparisons = <<>>

C8_Witness ==
    /\ cpc = "exit"
    /\ exitCode = 1
    /\ error = "NoData"
    /\ \A t \in ToolNames : files[t].kind = "absent"

\* C9: whenever at least one artifact is present, aggregation is never aborted and
\* the AggregatedResult has exactly the five tool keys, a present tool mapped to
\* the ToolResult of its artifact and every other tool (no file, an unparsable
\* file, a file without its results record) mapped to the all-zero sentinel.
C9_PartialInputTolerated ==
    (AfterLoop /\ \E t \in ToolNames : files[t].kind = "ok")
        => /\ cpc # "thrown"
           /\ exitCode # 1
           /\ cpc \in {"returned", "exit"} =>
                /\ DOMAIN cres.tools = ToolNames
                /\ \A t \in ToolNames :
                    cres.tools[t] = IF files[t].kind = "ok" THEN files[t].results
                                    ELSE [average |-> Rat(0, 1), total |-> 0,
                                          runs |-> <<>>, min |-> 0, max |-> 0]

\* the tools of the AggregatedResult with a non-zero average
Eligible == {t \in ToolNames : cres.tools[t].average.num # 0}

\* '<F>Vs<T capitalised>'
KeyFor(f, t) ==
    f \o "Vs" \o (CASE t = "nx" -> "Nx" [] t = "turbo" -> "Turbo" [] t = "lerna" -> "Lerna"
                    [] t = "lage" -> "Lage" [] t = "moon" -> "Moon")

\* C10: with at least two tools of non-zero average, comparisons holds, for a
\* minimum-average eligible tool F, exactly one entry '<F>Vs<T capitalised>' with
\* value T.average / F.average for every other eligible tool T, and nothing else.
C10_ComparisonsAgainstFastest ==
    (Returned /\ Cardinality(Eligible) >= 2)
        => \E f \in Eligible :
            /\ \A t \in Eligible :
                cres.tools[f].average.num * cres.tools[t].average.den
                    <= cres.tools[t].average.num * cres.tools[f].average.den
            /\ DOMAIN cres.comparisons = {KeyFor(f, t) : t \in Eligible \ {f}}
            /\ \A t \in Eligible \ {f} :
                LET r == cres.comparisons[KeyFor(f, t)]
                IN /\ r.den # 0
                   /\ r.num * cres.tools[f].average.num * cres.tools[t].average.den
                        = r.den * cres.tools[t].average.num * cres.tools[f].average.den

C10_Witness ==
    /\ Returned
    /\ Cardinality(Eligible) >= 3
    /\ \E t \in ToolNames : files[t].kind = "ok" /\ t \notin Eligible
    /\ \E t \in ToolNames : files[t].kind = "absent"
    /\ "turboVsNx" \in DOMAIN cres.comparisons
    /\ cres.comparisons["turboVsNx"] = Rat(2, 1)

\* C11: whenever fewer than two tools of the AggregatedResult have a non-zero
\* average, its comparisons mapping is empty; in particular when exactly one
\* per-tool result is present.
C11_FewerThanTwoNoComparisons ==
    (Returned /\ Cardinality(Eligible) < 2) => DOMAIN cres.comparisons = {}

C11_Witness ==
    /\ cpc = "exit"
    /\ exitCode = 0
    /\ Cardinality({t \in ToolNames : files[t].kind = "ok"}) = 1
    /\ Cardinality(Eligible) = 1
    /\ cres.comparisons = <<>>

\* C12: every ratio stored in comparisons is at least 1.
C12_RatiosAtLeastOne ==
    Returned => \A key \in DOMAIN cres.comparisons :
                    /\ cres.comparisons[key].den > 0
                    /\ cres.comparisons[key].num >= cres.comparisons[key].den

C12_Witness ==
    /\ Returned
    /\ \E k1, k2 \in DOMAIN cres.comparisons :
        /\ cres.comparisons[k1].num = cres.comparisons[k1].den
        /\ cres.comparisons[k2].num > cres.comparisons[k2].den

\* the greatest of a non-empty set of timestamps
Latest(S) == CHOOSE x \in S : \A y \in S : y <= x

\* C13: the timestamp of the AggregatedResult is the greatest timestamp among the
\* per-tool results read, whatever the positions of the tools holding them, and
\* its date is the date of the result with that timestamp.
C13_LatestTimestamp ==
    (Returned /\ stampsRead # {})
        => /\ cres.timestamp = Latest(stampsRead)
           /\ cres.date = DateOf(Latest(stampsRead))

C13_Witness ==
    /\ Returned
    /\ Cardinality(stampsRead) >= 2
    /\ files["nx"].kind = "ok"
    /\ files["moon"].kind = "ok"
    /\ cres.timestamp = MaxStamp
    /\ cres.date = DateOf(MaxStamp)

\* main of compare-and-update-readme has parsed its two inputs
Parsed == mpc \in {"parsed", "analyzed", "updated", "exit"}

\* main has called hasSignificantChanges and detectPerformanceRegression and both returned
Analyzed == mpc \in {"analyzed", "updated"}

\* |c - p| / p > 1/20 for a non-zero p
ChangedOver5Percent(c, p) ==
    /\ p.num # 0
    /\ LET d == c.num * p.den - p.num * c.den
       IN 20 * (IF d < 0 THEN -d ELSE d) > p.num * c.den

\* (c - p) / p > 1/10 for a non-zero p
RoseOver10Percent(c, p) ==
    p.num # 0 /\ 10 * (c.num * p.den - p.num * c.den) > p.num * c.den

\* (p - c) / p > 1/10 for a non-zero p
FellOver10Percent(c, p) ==
    p.num # 0 /\ 10 * (p.num * c.den - c.num * p.den) > p.num * c.den

\* C14: with previous results absent (variable unset, the placeholder {}, or a text
\* that does not parse), hasSignificantChanges returns true for every current input.
C14_FirstRunSignificant ==
    (Parsed /\ prevEnv.kind # "json")
        => /\ hasSignificantChanges(currentResults, previousResults) = Ok(TRUE)
           /\ Analyzed => significantChanges = Ok(TRUE)

C14_Witness ==
    /\ mpc = "updated"
    /\ prevEnv.kind = "empty"
    /\ curEnv.kind = "json"
    /\ significantChanges = Ok(TRUE)
    /\ \A t \in ToolNames : curEnv.data.tools[t].average = Rat(300, 1)

\* C15: with previous and current results each holding an average for all five
\* tools, the change is significant exactly when some tool has a non-zero previous
\* average and |current - previous| / previous > 5%; a previous average of 0
\* never counts and a change of exactly 5% does not count.
C15_SignificantIffOver5Percent ==
    (/\ Parsed
     /\ prevEnv.kind = "json" /\ curEnv.kind = "json"
     /\ DOMAIN prevEnv.data.tools = ToolNames
     /\ DOMAIN curEnv.data.tools = ToolNames)
        => LET expected == \E t \in ToolNames :
                    ChangedOver5Percent(curEnv.data.tools[t].average,
                                        prevEnv.data.tools[t].average)
           IN /\ hasSignificantChanges(currentResults, previousResults) = Ok(expected)
              /\ Analyzed => significantChanges = Ok(expected)

C15_Witness ==
    /\ mpc = "analyzed"
    /\ prevEnv.kind = "json" /\ curEnv.kind = "json"
    /\ DOMAIN prevEnv.data.tools = ToolNames
    /\ DOMAIN curEnv.data.tools = ToolNames
    /\ curEnv.data.tools["lage"].average = Rat(315, 1)
    /\ prevEnv.data.tools["lage"].average = Rat(300, 1)
    /\ significantChanges = Ok(FALSE)

\* the regression the two inputs call for: nx's average rose by more than 10% of
\* its non-zero previous value, or a ratio with a key in both comparisons fell by
\* more than 10% of its previous value
ExpectedRegression ==
    /\ prevEnv.kind = "json"
    /\ curEnv.kind = "json"
    /\ \/ /\ "nx" \in DOMAIN prevEnv.data.tools
          /\ "nx" \in DOMAIN curEnv.data.tools
          /\ RoseOver10Percent(curEnv.data.tools["nx"].average,
                               prevEnv.data.tools["nx"].average)
       \/ \E key \in DOMAIN curEnv.data.comparisons \cap DOMAIN prevEnv.data.comparisons :
                FellOver10Percent(curEnv.data.comparisons[key],
                                  prevEnv.data.comparisons[key])

\* nx has a previous average and no current one
NxLostInCurrent ==
    /\ prevEnv.kind = "json"
    /\ curEnv.kind = "json"
    /\ "nx" \in DOMAIN prevEnv.data.tools
    /\ "nx" \notin DOMAIN curEnv.data.tools

\* C16: detectPerformanceRegression returns true exactly when nx's average rose by
\* more than 10% of its non-zero previous average or a comparison key of both
\* snapshots has a ratio that fell by more than 10% of its previous value; a
\* faster nx, a higher ratio and keys of one snapshot only never give a regression.
C16_RegressionIff ==
    (Parsed /\ ~NxLostInCurrent)
        => /\ detectPerformanceRegression(currentResults, previousResults)
                = Ok(ExpectedRegression)
           /\ Analyzed => hasRegression = Ok(ExpectedRegression)

C16_Witness ==
    /\ mpc = "updated"
    /\ hasRegression = Ok(TRUE)
    /\ curEnv.data.tools["nx"].average = Rat(255, 1)
    /\ prevEnv.data.tools["nx"].average = Rat(300, 1)
    /\ curEnv.data.comparisons = [key \in {"nxVsTurbo"} |-> Rat(17, 10)]
    /\ prevEnv.data.comparisons = [key \in {"nxVsTurbo"} |-> Rat(20, 10)]

\* current holds nx alone with average 300, previous nx alone with average 305
OnlyNxScenario ==
    /\ curEnv = [kind |-> "json",
                 data |-> [tools |-> [t \in {"nx"} |-> [average |-> Rat(300, 1)]],
                           comparisons |-> <<>>]]
    /\ prevEnv = [kind |-> "json",
                  data |-> [tools |-> [t \in {"nx"} |-> [average |-> Rat(305, 1)]],
                            comparisons |-> <<>>]]

\* C17: current = {nx: 300} and previous = {nx: 305}, no other tool in either, gives
\* significant = false and regression = false.
C17_OnlyNxNotSignificant ==
    (Parsed /\ OnlyNxScenario)
        => /\ hasSignificantChanges(currentResults, previousResults) = Ok(FALSE)
           /\ detectPerformanceRegression(currentResults, previousResults) = Ok(FALSE)

\* C17 amended: current = {nx: 300} and previous = {nx: 305}, no other tool in
\* either, gives regression = false and significant = true: nx changed by less
\* than 5%, but turbo has no previous data, which counts as significant.
C17_OnlyNxSignificantNoRegression ==
    (Parsed /\ OnlyNxScenario)
        => /\ hasSignificantChanges(currentResults, previousResults) = Ok(TRUE)
           /\ detectPerformanceRegression(currentResults, previousResults) = Ok(FALSE)
           /\ Analyzed => (significantChanges = Ok(TRUE) /\ hasRegression = Ok(FALSE))

C17_Witness ==
    /\ OnlyNxScenario
    /\ mpc = "analyzed"
    /\ significantChanges = Ok(TRUE)
    /\ hasRegression = Ok(FALSE)

\* C18: when nx is missing from the tools of the current or of the previous
\* results, detectPerformanceRegression returns false and throws nothing.
C18_MissingNxNoRegression ==
    (/\ Parsed
     /\ prevEnv.kind = "json" /\ curEnv.kind = "json"
     /\ "nx" \notin DOMAIN curEnv.data.tools \/ "nx" \notin DOMAIN prevEnv.data.tools)
        => /\ detectPerformanceRegression(currentResults, previousResults) = Ok(FALSE)
           /\ cmpError = "none"

\* C19: when PREVIOUS_RESULTS does not parse, the comparison stops with an error: it
\* never goes on to analyse, to write README.md or to report, and the process
\* does not end with status 0.
C19_UnparsablePreviousHalts ==
    prevEnv.kind = "garbage"
        => /\ ~Analyzed
           /\ readme = <<>>
           /\ stdoutReadme = "none"
           /\ stdoutRegression = "none"
           /\ mpc = "exit" => cmpExit # 0

\* C20: started without current results (CURRENT_RESULTS unset, {}, or a text that
\* does not parse), the process ends with a non-zero status and README.md is not
\* written.
C20_NoCurrentExitsNonZero ==
    curEnv.kind # "json"
        => /\ ~Analyzed
           /\ readme = <<>>
           /\ mpc = "exit" => cmpExit # 0

\* C20 amended: started without current results, README.md is never written and
\* nothing is analysed; when CURRENT_RESULTS does not parse the process ends with
\* status 1 and reports nothing; when it is unset or {} the process reports
\* readme-updated=false and performance-regression=false and ends with status 0.
C20_NoCurrentUpdatesNothing ==
    curEnv.kind # "json"
        => /\ ~Analyzed
           /\ readme = <<>>
           /\ (mpc = "exit" /\ curEnv.kind = "garbage")
                => (cmpExit = 1 /\ stdoutReadme = "none" /\ stdoutRegression = "none")
           /\ (mpc = "exit" /\ curEnv.kind \in {"unset", "empty"})
                => (cmpExit = 0 /\ stdoutReadme = "false" /\ stdoutRegression = "false")

C20_Witness ==
    /\ mpc = "exit"
    /\ curEnv.kind = "unset"
    /\ prevEnv.kind = "json"
    /\ cmpExit = 0
    /\ stdoutReadme = "false"
    /\ readme = <<>>

\* getOptimalConcurrency has returned
Advised == gpc = "returned"

RECURSIVE DecimalOf(_)
\* the number a text of digits denotes
DecimalOf(t) ==
    IF t = <<>> THEN 0
    ELSE 10 * DecimalOf(SubSeq(t, 1, Len(t) - 1))
            + (CASE t[Len(t)] = "0" -> 0 [] t[Len(t)] = "1" -> 1 [] t[Len(t)] = "2" -> 2)

AllDigits(t) == \A n \in 1..Len(t) : t[n] \in {"0", "1", "2"}

\* BENCHMARK_CONCURRENCY is the text of a positive integer
PositiveOverride ==
    override.set /\ override.text # <<>> /\ AllDigits(override.text)
        /\ DecimalOf(override.text) > 0

\* BENCHMARK_CONCURRENCY is unset, empty, without any digit, zero, or a negative integer
InvalidOverride ==
    \/ ~override.set
    \/ \A n \in 1..Len(override.text) : override.text[n] \notin {"0", "1", "2"}
    \/ AllDigits(override.text) /\ DecimalOf(override.text) = 0
    \/ /\ Len(override.text) >= 2
       /\ override.text[1] = "-"
       /\ AllDigits(Tail(override.text))

\* max(1, floor(cpuCount * 0.5) - 1)
HalfMinusOne == IF (cpuCount \div 2) - 1 > 1 THEN (cpuCount \div 2) - 1 ELSE 1

\* max(1, cpuCount - 1)
AllButOne == IF cpuCount - 1 > 1 THEN cpuCount - 1 ELSE 1

\* C21: getOptimalConcurrency never returns a prep or a benchmark concurrency below
\* 1, for every number of cores from 0, both values of isCI and every override.
C21_AtLeastOne ==
    Advised => (concurrency.prep >= 1 /\ concurrency.benchmark >= 1)

C21_Witness ==
    /\ Advised
    /\ cpuCount = 1
    /\ isCI
    /\ override = [set |-> TRUE, text |-> <<"-", "2">>]
    /\ concurrency = [prep |-> 1, benchmark |-> 1]

\* C22: without CI and without a valid override, both scripts return
\* prep = benchmark = max(1, floor(cpuCount * 0.5) - 1).
C22_LocalHeuristicSame ==
    (Advised /\ ~isCI /\ InvalidOverride)
        => concurrency = [prep |-> HalfMinusOne, benchmark |-> HalfMinusOne]

\* C23: in CI without a valid override, prep = max(1, floor(cpuCount * 0.5) - 1)
\* and benchmark = max(1, cpuCount - 1).
C23_CIHeuristic ==
    (Advised /\ isCI /\ InvalidOverride)
        => concurrency = [prep |-> HalfMinusOne, benchmark |-> AllButOne]

C23_Witness ==
    /\ Advised
    /\ isCI
    /\ ~override.set
    /\ cpuCount = 8
    /\ concurrency = [prep |-> 3, benchmark |-> 7]

\* C24: an override that is a positive integer is returned as prep and as
\* benchmark, whatever the cores and isCI; an override that is unset, without a
\* digit, zero or negative is ignored and the CI or local heuristic applies.
C24_OverrideWins ==
    Advised =>
        /\ PositiveOverride
            => concurrency = [prep |-> DecimalOf(override.text),
                              benchmark |-> DecimalOf(override.text)]
        /\ InvalidOverride
            => concurrency = IF isCI THEN CIHeuristic(cpuCount)
                             ELSE LocalHeuristic(script, cpuCount)

C24_Witness ==
    /\ Advised
    /\ override = [set |-> TRUE, text |-> <<"1", "2">>]
    /\ cpuCount = 4
    /\ concurrency = [prep |-> 12, benchmark |-> 12]

\* C30: for the same five tool results, the comparisons runBenchmark computes are
\* the comparisons combineResults computes: same keys, same ratios, also when
\* tools have average 0.
C30_SameComparisons ==
    Returned =>
        /\ DOMAIN runBenchmarkComparisons(cres) = DOMAIN cres.comparisons
        /\ \A key \in DOMAIN cres.comparisons :
            LET a == runBenchmarkComparisons(cres)[key]
                b == cres.comparisons[key]
            IN a.den # 0 /\ a.num * b.den = b.num * a.den

\* nx is slower relative to tool o in the current snapshot than in the previous
\* one: nx.average / o.average is larger
NxSlowerRelativeTo(o) ==
    LET cn == curEnv.data.tools["nx"].average
        co == curEnv.data.tools[o].average
        pn == prevEnv.data.tools["nx"].average
        po == prevEnv.data.tools[o].average
    IN /\ co.num # 0 /\ po.num # 0
       /\ cn.num * co.den * pn.den * po.num > pn.num * po.den * cn.den * co.num

\* C27: when a regression is reported and nx's own average did not rise by more
\* than 10%, every comparison of both snapshots whose ratio fell by more than 10%
\* is a comparison of nx with another tool, and nx has become slower relative
\* to that tool, whichever tool is the fastest of each snapshot.
C27_RatioRegressionMeansNxSlower ==
    (/\ Analyzed
     /\ curEnv.kind = "json" /\ prevEnv.kind = "json"
     /\ hasRegression = Ok(TRUE)
     /\ ~RoseOver10Percent(curEnv.data.tools["nx"].average,
                           prevEnv.data.tools["nx"].average))
        => \A key \in DOMAIN curEnv.data.comparisons \cap DOMAIN prevEnv.data.comparisons :
                FellOver10Percent(curEnv.data.comparisons[key],
                                  prevEnv.data.comparisons[key])
                    => \E o \in ToolNames \ {"nx"} :
                        /\ key \in {KeyFor("nx", o), KeyFor(o, "nx")}
                        /\ NxSlowerRelativeTo(o)

\* C25: started with '--output json', combine-results and benchmark-single-tool
\* write nothing to stdout but the one JSON document: stdout never holds a log
\* line, and a process that ended with status 0 has written exactly the document.
C25_OnlyJsonOnStdout ==
    isJsonOutput =>
        /\ stdout \in {<<>>, <<"json">>}
        /\ ((cpc = "exit" /\ exitCode = 0) \/ bpc = "done") => stdout = <<"json">>

\* C26: for lerna exactly one `nx reset` is made, at the start, before any run is
\* started; for every other tool none is made; and whatever the reset's ending, a
\* finished benchmark has started NUMBER_OF_PREP_RUNS prep runs and
\* NUMBER_OF_RUNS measurement runs and returned their statistics.
C26_OneResetBeforeLerna ==
    /\ tool # "lerna" => nxResets = 0 /\ resetStatus = "none"
    /\ tool = "lerna" =>
        /\ nxResets = (IF bpc = "start" THEN 0 ELSE 1)
        /\ resetStatus = "none" <=> bpc = "start"
        /\ bpc = "start" => started = <<>>
    /\ bpc = "done" =>
        /\ Count(started, "prep") = NUMBER_OF_PREP_RUNS
        /\ Count(started, "measure") = NUMBER_OF_RUNS
        /\ Len(out.runs) = NUMBER_OF_RUNS
        /\ out.total = totalTime

C26_Witness ==
    /\ tool = "lerna"
    /\ resetStatus = "null"
    /\ nxResets = 1
    /\ bpc = "done"
    /\ Len(out.runs) = NUMBER_OF_RUNS

\* C28: each benchmark process writes only its own file benchmark-results-<tool>.json,
\* no two processes write the same file, and while the aggregator reads the
\* per-tool files every benchmark process has finished, so that no file is
\* written while it is read.
C28_WritersBeforeReader ==
    /\ \A t \in ToolNames : writing[t] \subseteq {<<"benchmark-results", t, "json">>}
    /\ \A t, u \in ToolNames : t # u => writing[t] \cap writing[u] = {}
    /\ \A t \in ToolNames : writing[t] \cap reading = {}
    /\ reading # {} =>
        \A t \in ToolNames : benchmark[t] \in {"success", "failure", "skipped"}

C28_Witness ==
    /\ analysis = "combining"
    /\ reading # {}
    /\ artifacts = ToolNames
    /\ \A t \in ToolNames : benchmark[t] = "success"

\* C29: when the run before produced aggregated results, the comparator of this
\* run receives exactly them as its previous input, and a run that has ended
\* has left its aggregated results in the repository's
\* previous-benchmark-results.json.
C29_PreviousIsLastRun ==
    /\ (analysis \in {"compare", "save", "upload", "success"} /\ previousRun # Absent)
        => PREVIOUS_RESULTS_JSON = previousRun
    /\ (publish \in {"success", "skipped"} /\ resultsFile # Absent)
        => repository = resultsFile
====
